---- MODULE Spec2Model ----
(***************************************************************************)
(* Model of re_backup: the periodic one-way directory synchronisation of   *)
(* src/src/re_backuper.py (make_re_backup) and the sound alerts of         *)
(* src/src/utillity/audio_alerts.py (NotificationController).              *)
(*                                                                         *)
(* The main thread runs make_re_backup; every alert_* call starts one      *)
(* playback thread.  File names are the integers 1..MaxFiles, sound paths  *)
(* are sequences of path components.  The directories are changed by their *)
(* owner only while the loop sleeps (between two cycles).                  *)
(***************************************************************************)
EXTENDS Integers, Sequences, FiniteSets, Bags, TLC

VARIABLES
    pc,             \* position of the main thread
    cycle,          \* number of the current pass of "while True"
    src_dir,        \* names present in SRC_DIRECTORY
    dist_exists,    \* whether DIST_DIRECTORY exists
    dist_dir,       \* names present in DIST_DIRECTORY
    src_files,      \* local set src_files (line 79)
    dist_files,     \* local set dist_files (line 80)
    src_todo,       \* names the first for loop has still to visit
    dist_todo,      \* names the second for loop has still to visit
    was_error,      \* local flag was_error
    nc,             \* the NotificationController instance (its six paths)
    mixer_init,     \* whether pygame.mixer is initialised (process wide)
    threads,        \* bag of the live playback threads
    calls,          \* alert_* calls made by the direct caller of the controller
    \* history of the current cycle
    copy_attempts,  \* name -> number of shutil.copy calls
    delete_attempts,\* name -> number of os.remove calls
    failed,         \* names whose copy or delete raised
    alert_error_calls,
    alert_msg_calls,
    start_absent,   \* the cycle started with DIST_DIRECTORY absent
    prev_failed,    \* the previous cycle had a failing copy or delete
    unchanged       \* both directories are as the previous cycle left them

vars == <<pc, cycle, src_dir, dist_exists, dist_dir, src_files, dist_files,
          src_todo, dist_todo, was_error, nc, mixer_init, threads,
          calls, copy_attempts, delete_attempts, failed, alert_error_calls,
          alert_msg_calls, start_absent, prev_failed, unchanged>>

fsVars == <<src_dir, dist_exists, dist_dir>>
loopVars == <<src_files, dist_files, src_todo, dist_todo, was_error>>
audioVars == <<nc, mixer_init, threads>>
histVars == <<copy_attempts, delete_attempts, failed, alert_error_calls,
              alert_msg_calls, start_absent, prev_failed, unchanged>>

----------------------------------------------------------------------------
\* Bounds

MaxFiles == 2
MaxCycles == 2
MaxCalls == 2

Names == 1..MaxFiles

----------------------------------------------------------------------------
\* NotificationController.__init__

basename(path) == <<path[Len(path)]>>

NotificationController(default_success_sound_path, default_error_sound_path, default_warning_sound_path) ==
    [custom_success_sound_path |-> basename(default_success_sound_path),
     custom_warning_sound_path |-> basename(default_warning_sound_path),
     custom_error_sound_path |-> basename(default_error_sound_path),
     default_success_sound_path |-> default_success_sound_path,
     default_error_sound_path |-> default_error_sound_path,
     default_warning_sound_path |-> default_warning_sound_path]

audio_alert_path == <<"data", "bad.mp3">>

CustomPath(kind) ==
    CASE kind = "success" -> nc.custom_success_sound_path
      [] kind = "warning" -> nc.custom_warning_sound_path
      [] kind = "error" -> nc.custom_error_sound_path

DefaultPath(kind) ==
    CASE kind = "success" -> nc.default_success_sound_path
      [] kind = "warning" -> nc.default_warning_sound_path
      [] kind = "error" -> nc.default_error_sound_path

----------------------------------------------------------------------------
\* Playback threads: _alert_success / _alert_warning / _alert_error, each
\* calling alert_sound on the custom path and then, maybe, on the default one.

CurPath(t) == IF t.phase = "custom" THEN CustomPath(t.kind) ELSE DefaultPath(t.kind)

NewThread(kind) == [kind |-> kind, phase |-> "custom", pc |-> "init", attempts |-> <<>>]

\* threading.Thread(target=self._alert_<kind>).start()
Spawn(kind) == threads' = threads (+) SetToBag({NewThread(kind)})

Replace(t, t2) == threads' = (threads (-) SetToBag({t})) (+) SetToBag({t2})

\* Mutant: the default sound is played whatever the custom one returned.
FallsBackAlways(ok) == TRUE

\* "if not self.alert_sound(self.custom_..._sound_path):"
FallsBack(ok) == ~ok

\* The thread after alert_sound has returned ok for its current path.
AfterSound(t, ok) ==
    LET a == Append(t.attempts, [path |-> CurPath(t), ok |-> ok])
    IN  IF t.phase = "custom" /\ FallsBack(ok)
        THEN [t EXCEPT !.phase = "default", !.pc = "init", !.attempts = a]
        ELSE [t EXCEPT !.pc = "done", !.attempts = a]

\* pygame.mixer.init(): nothing to do when the mixer is initialised already,
\* otherwise it opens the audio device, which may be unavailable.
MixerInit ==
    \E t \in BagToSet(threads) :
        /\ t.pc = "init"
        /\ \E device \in BOOLEAN :
              IF mixer_init \/ device
              THEN /\ mixer_init' = TRUE
                   /\ Replace(t, [t EXCEPT !.pc = "load"])
              ELSE /\ UNCHANGED mixer_init
                   /\ Replace(t, AfterSound(t, FALSE))
        /\ UNCHANGED <<pc, cycle, fsVars, loopVars, nc, calls, histVars>>

\* pygame.mixer.music.load(sound_file_path); pygame.mixer.music.play():
\* raises when there is no playable file at the path at this moment (missing,
\* not decodable), or when another thread has shut the mixer down meanwhile.
MusicLoad ==
    \E t \in BagToSet(threads) :
        /\ t.pc = "load"
        /\ \E playable \in BOOLEAN :
              IF mixer_init /\ playable
              THEN Replace(t, [t EXCEPT !.pc = "busy"])
              ELSE Replace(t, AfterSound(t, FALSE))
        /\ UNCHANGED <<pc, cycle, fsVars, loopVars, nc, mixer_init, calls,
                       histVars>>

\* The end of "while get_busy(): sleep(0.1)", then music.stop(), mixer.quit()
\* and return True; get_busy() raises when another thread has shut the mixer
\* down.  A playback that never ends never takes this step.
MusicDone ==
    \E t \in BagToSet(threads) :
        /\ t.pc = "busy"
        /\ IF mixer_init
           THEN /\ mixer_init' = FALSE
                /\ Replace(t, AfterSound(t, TRUE))
           ELSE /\ UNCHANGED mixer_init
                /\ Replace(t, AfterSound(t, FALSE))
        /\ UNCHANGED <<pc, cycle, fsVars, loopVars, nc, calls, histVars>>

\* The target function returns and the thread ends.
ThreadExit ==
    \E t \in BagToSet(threads) :
        /\ t.pc = "done"
        /\ threads' = threads (-) SetToBag({t})
        /\ UNCHANGED <<pc, cycle, fsVars, loopVars, nc, mixer_init,
                       calls, histVars>>

----------------------------------------------------------------------------
\* make_re_backup

NoAttempts == [n \in Names |-> 0]

Bump(f, n) == [f EXCEPT ![n] = @ + 1]

\* Mutant: the missing directory is not created.
MakeDirsSkipped ==
    /\ pc = "start"
    /\ ~dist_exists
    /\ pc' = "list_src"
    /\ UNCHANGED <<cycle, fsVars, loopVars, audioVars, calls, histVars>>

\* "if not os.path.exists(DIST_DIRECTORY): os.makedirs(DIST_DIRECTORY)"
MakeDirs ==
    /\ pc = "start"
    /\ ~dist_exists
    /\ \/ /\ dist_exists' = TRUE
          /\ dist_dir' = {}
          /\ pc' = "list_src"
       \/ /\ UNCHANGED <<dist_exists, dist_dir>>
          /\ pc' = "crashed"
    /\ UNCHANGED <<cycle, src_dir, loopVars, audioVars, calls, histVars>>

DirPresent ==
    /\ pc = "start"
    /\ dist_exists
    /\ pc' = "list_src"
    /\ UNCHANGED <<cycle, fsVars, loopVars, audioVars, calls, histVars>>

\* "src_files = set(os.listdir(SRC_DIRECTORY))"
ListSrc ==
    /\ pc = "list_src"
    /\ \/ /\ src_files' = src_dir
          /\ pc' = "list_dist"
       \/ /\ UNCHANGED src_files
          /\ pc' = "crashed"
    /\ UNCHANGED <<cycle, fsVars, dist_files, src_todo, dist_todo, was_error,
                   audioVars, calls, histVars>>

\* Mutant: the flag is not reset and keeps the previous cycle's value.
ResetFlagMissing == was_error

\* "was_error = False"
ResetFlag == FALSE

\* "dist_files = set(os.listdir(DIST_DIRECTORY))", "was_error = False" and
\* the start of "for file in src_files"
ListDist ==
    /\ pc = "list_dist"
    /\ \/ /\ dist_files' = dist_dir
          /\ was_error' = ResetFlag
          /\ src_todo' = src_files
          /\ pc' = "copy_loop"
       \/ /\ UNCHANGED <<dist_files, was_error, src_todo>>
          /\ pc' = "crashed"
    /\ UNCHANGED <<cycle, fsVars, src_files, dist_todo, audioVars, calls, histVars>>

\* Mutant: every source name is copied, present in the destination or not.
NeedsCopyAlways(file) == TRUE

\* "if file not in dist_files:"
NeedsCopy(file) == file \notin dist_files

\* Mutant: the membership test reads the wrong set.
NeedsRemoveWrongSet(file) == file \notin dist_files

\* Mutant: every destination name is removed, present in the source or not.
NeedsRemoveAlways(file) == TRUE

\* "if file not in src_files:"
NeedsRemove(file) == file \notin src_files

\* Mutant: the except blocks log and do not set the flag.
FlagForgotten == FALSE

\* "was_error = True" in either except block
FlagOnFailure == TRUE

\* Mutant: the try wraps the loop, so the first failure ends the loop.
RemainingAbort(todo, file, ok) == IF ok THEN todo \ {file} ELSE {}

\* What a for loop has left to visit once the body has run for file, the
\* except block included: the loop goes on to the next name.
Remaining(todo, file, ok) == todo \ {file}

\* One pass of the body of "for file in src_files" (a set: any order).
\* A shutil.copy that raises may or may not leave a file at dist_path.
CopyStep ==
    /\ pc = "copy_loop"
    /\ \E file \in src_todo :
          IF NeedsCopy(file)
          THEN \E ok \in BOOLEAN, left \in BOOLEAN :
                  /\ ok => left
                  /\ dist_dir' = IF left THEN dist_dir \cup {file} ELSE dist_dir
                  /\ was_error' = IF ok THEN was_error ELSE FlagOnFailure
                  /\ failed' = IF ok THEN failed ELSE failed \cup {file}
                  /\ copy_attempts' = Bump(copy_attempts, file)
                  /\ src_todo' = Remaining(src_todo, file, ok)
          ELSE /\ src_todo' = Remaining(src_todo, file, TRUE)
               /\ UNCHANGED <<dist_dir, was_error, failed, copy_attempts>>
    /\ UNCHANGED <<pc, cycle, src_dir, dist_exists, src_files, dist_files,
                   dist_todo, audioVars, calls, delete_attempts,
                   alert_error_calls, alert_msg_calls, start_absent,
                   prev_failed, unchanged>>

\* The first loop is exhausted; "for file in dist_files" starts.
CopyDone ==
    /\ pc = "copy_loop"
    /\ src_todo = {}
    /\ dist_todo' = dist_files
    /\ pc' = "delete_loop"
    /\ UNCHANGED <<cycle, fsVars, src_files, dist_files, src_todo, was_error,
                   audioVars, calls, histVars>>

\* One pass of the body of "for file in dist_files".
DeleteStep ==
    /\ pc = "delete_loop"
    /\ \E file \in dist_todo :
          IF NeedsRemove(file)
          THEN \E ok \in BOOLEAN :
                  /\ dist_dir' = IF ok THEN dist_dir \ {file} ELSE dist_dir
                  /\ was_error' = IF ok THEN was_error ELSE FlagOnFailure
                  /\ failed' = IF ok THEN failed ELSE failed \cup {file}
                  /\ delete_attempts' = Bump(delete_attempts, file)
                  /\ dist_todo' = Remaining(dist_todo, file, ok)
          ELSE /\ dist_todo' = Remaining(dist_todo, file, TRUE)
               /\ UNCHANGED <<dist_dir, was_error, failed, delete_attempts>>
    /\ UNCHANGED <<pc, cycle, src_dir, dist_exists, src_files, dist_files,
                   src_todo, audioVars, calls, copy_attempts,
                   alert_error_calls, alert_msg_calls, start_absent,
                   prev_failed, unchanged>>

DeleteDone ==
    /\ pc = "delete_loop"
    /\ dist_todo = {}
    /\ pc' = "check_error"
    /\ UNCHANGED <<cycle, fsVars, loopVars, audioVars, calls, histVars>>

\* "if was_error:" taken: audio_alert.alert_error() starts its thread
AlertError ==
    /\ pc = "check_error"
    /\ was_error
    /\ Spawn("error")
    /\ alert_error_calls' = alert_error_calls + 1
    /\ pc' = "alert_delay"
    /\ UNCHANGED <<cycle, fsVars, loopVars, nc, mixer_init, calls,
                   copy_attempts, delete_attempts, failed, alert_msg_calls,
                   start_absent, prev_failed, unchanged>>

\* "if was_error:" not taken
NoAlert ==
    /\ pc = "check_error"
    /\ ~was_error
    /\ pc' = "sleep"
    /\ UNCHANGED <<cycle, fsVars, loopVars, audioVars, calls, histVars>>

\* Mutant: alert_error joins its playback threads before it returns.
AlertReturnJoined ==
    /\ pc = "alert_delay"
    /\ threads = EmptyBag
    /\ pc' = "alert_msg"
    /\ UNCHANGED <<cycle, fsVars, loopVars, audioVars, calls, histVars>>

\* time.sleep(1) of alert_error is over and alert_error returns
AlertReturn ==
    /\ pc = "alert_delay"
    /\ pc' = "alert_msg"
    /\ UNCHANGED <<cycle, fsVars, loopVars, audioVars, calls, histVars>>

\* audio_alert.alert_msg("backup error"): say the message and wait
AlertMsg ==
    /\ pc = "alert_msg"
    /\ alert_msg_calls' = alert_msg_calls + 1
    /\ pc' = "sleep"
    /\ UNCHANGED <<cycle, fsVars, loopVars, audioVars, calls, copy_attempts,
                   delete_attempts, failed, alert_error_calls, start_absent,
                   prev_failed, unchanged>>

\* time.sleep(timeaut_minutes * 60), during which the owner of the
\* directories may change them, and the next pass of "while True" begins.
Sleep ==
    /\ pc = "sleep"
    /\ cycle < MaxCycles
    /\ \E ns \in SUBSET Names, nd \in SUBSET Names, ex \in BOOLEAN :
          /\ src_dir' = ns
          /\ dist_exists' = ex
          /\ dist_dir' = IF ex THEN nd ELSE {}
          /\ ~ex => nd = {}
          /\ unchanged' = (ns = src_dir /\ ex = dist_exists /\ nd = dist_dir)
          /\ start_absent' = ~ex
    /\ cycle' = cycle + 1
    /\ pc' = "start"
    /\ prev_failed' = (failed # {})
    /\ copy_attempts' = NoAttempts
    /\ delete_attempts' = NoAttempts
    /\ failed' = {}
    /\ alert_error_calls' = 0
    /\ alert_msg_calls' = 0
    /\ UNCHANGED <<loopVars, audioVars, calls>>

Init ==
    /\ pc = "start"
    /\ cycle = 1
    /\ src_dir \in SUBSET Names
    /\ dist_exists \in BOOLEAN
    /\ dist_dir \in SUBSET Names
    /\ ~dist_exists => dist_dir = {}
    /\ src_files = {}
    /\ dist_files = {}
    /\ src_todo = {}
    /\ dist_todo = {}
    /\ was_error = FALSE
    /\ nc = NotificationController(audio_alert_path, audio_alert_path,
                                   audio_alert_path)
    /\ mixer_init = FALSE
    /\ threads = EmptyBag
    /\ calls = 0
    /\ copy_attempts = NoAttempts
    /\ delete_attempts = NoAttempts
    /\ failed = {}
    /\ alert_error_calls = 0
    /\ alert_msg_calls = 0
    /\ start_absent = ~dist_exists
    /\ prev_failed = FALSE
    /\ unchanged = FALSE

Next ==
    \/ MakeDirs \/ DirPresent \/ ListSrc \/ ListDist \/ CopyStep \/ CopyDone
    \/ DeleteStep \/ DeleteDone \/ AlertError \/ NoAlert \/ AlertReturn
    \/ AlertMsg \/ Sleep
    \/ MixerInit \/ MusicLoad \/ MusicDone \/ ThreadExit

Spec == Init /\ [][Next]_vars

\* The main thread is always scheduled again, so its two sleeps and the
\* speech end; nothing makes a playback end.
FairSpec ==
    /\ Init /\ [][Next]_vars
    /\ WF_vars(AlertReturn) /\ WF_vars(AlertMsg) /\ WF_vars(Sleep)

----------------------------------------------------------------------------
\* The controller used on its own, as in the module's usage notes: a caller
\* that makes up to MaxCalls alert_success / alert_warning / alert_error calls.

\* threading.Thread(target=self._alert_<kind>).start(), then time.sleep(1)
Alert(kind) ==
    /\ pc = "client"
    /\ calls < MaxCalls
    /\ Spawn(kind)
    /\ calls' = calls + 1
    /\ pc' = "client_delay"
    /\ UNCHANGED <<cycle, fsVars, loopVars, nc, mixer_init, histVars>>

alert_success == Alert("success")

alert_warning == Alert("warning")

alert_error == Alert("error")

\* time.sleep(1) is over and the alert_* call returns
ClientReturn ==
    /\ pc = "client_delay"
    /\ pc' = "client"
    /\ UNCHANGED <<cycle, fsVars, loopVars, audioVars, calls, histVars>>

InitNC ==
    /\ pc = "client"
    /\ cycle = 0
    /\ src_dir = {}
    /\ dist_exists = FALSE
    /\ dist_dir = {}
    /\ src_files = {}
    /\ dist_files = {}
    /\ src_todo = {}
    /\ dist_todo = {}
    /\ was_error = FALSE
    /\ nc = NotificationController(<<"path", "to", "default_success_sound.wav">>,
                                   <<"path", "to", "default_error_sound.wav">>,
                                   <<"path", "to", "default_warning_sound.wav">>)
    /\ mixer_init = FALSE
    /\ threads = EmptyBag
    /\ calls = 0
    /\ copy_attempts = NoAttempts
    /\ delete_attempts = NoAttempts
    /\ failed = {}
    /\ alert_error_calls = 0
    /\ alert_msg_calls = 0
    /\ start_absent = FALSE
    /\ prev_failed = FALSE
    /\ unchanged = FALSE

NextNC ==
    \/ alert_success \/ alert_warning \/ alert_error \/ ClientReturn
    \/ MixerInit \/ MusicLoad \/ MusicDone \/ ThreadExit

SpecNC == InitNC /\ [][NextNC]_vars

----------------------------------------------------------------------------
\* Properties

AfterLoops == {"check_error", "alert_delay", "alert_msg", "sleep"}

InCycle == {"list_src", "list_dist", "copy_loop", "delete_loop"} \cup AfterLoops

NoFileOps == \A n \in Names : copy_attempts[n] = 0 /\ delete_attempts[n] = 0

\* C1: once both loops of a cycle are over and no copy and no delete of the
\* cycle has failed, the destination directory holds exactly the names of
\* the source snapshot.
C1_ExactMirror ==
    (pc \in AfterLoops /\ failed = {}) => dist_dir = src_files

\* Source {1}, destination {2}: 1 has been copied and 2 deleted.
C1_Witness ==
    /\ pc = "sleep"
    /\ failed = {}
    /\ src_files = {1}
    /\ dist_files = {2}
    /\ copy_attempts[1] = 1
    /\ delete_attempts[2] = 1
    /\ dist_dir = {1}

\* C2: shutil.copy is only ever called for a name of the source snapshot that
\* is not in the destination snapshot, os.remove only for a name of the
\* destination snapshot that is not in the source snapshot; no step of a
\* cycle changes the source directory, and the destination directory gains
\* and loses only such names.
C2_Frame ==
    /\ [](\A n \in Names :
             /\ copy_attempts[n] > 0 => n \in src_files \ dist_files
             /\ delete_attempts[n] > 0 => n \in dist_files \ src_files)
    /\ [][pc # "sleep" =>
             /\ src_dir' = src_dir
             /\ (dist_dir' \ dist_dir) \subseteq (src_files \ dist_files)
             /\ (dist_dir \ dist_dir') \subseteq (dist_files \ src_files)]_vars

\* A cycle that found a name in both directories and has copied another.
C2_Witness ==
    /\ pc = "sleep"
    /\ src_files \cap dist_files # {}
    /\ \E n \in Names : copy_attempts[n] = 1
    /\ src_files \cap dist_files \subseteq dist_dir

\* C3: no name is copied or deleted twice in a cycle; when the first loop is
\* over every name pending copy has been attempted once, when the second is
\* over every name pending delete has been, whatever failed; and a failing
\* copy or delete never ends make_re_backup.
C3_ContinueOnFailure ==
    /\ \A n \in Names : copy_attempts[n] <= 1 /\ delete_attempts[n] <= 1
    /\ pc \in AfterLoops \cup {"delete_loop"} =>
          \A n \in src_files \ dist_files : copy_attempts[n] = 1
    /\ pc \in AfterLoops =>
          \A n \in dist_files \ src_files : delete_attempts[n] = 1
    /\ pc = "crashed" => failed = {}

\* Two copies were pending and both failed, each attempted once; the cycle
\* went on to its sleep.
C3_Witness ==
    /\ pc = "sleep"
    /\ Cardinality(failed) >= 2
    /\ \A n \in failed : copy_attempts[n] = 1

\* C4: a cycle with a failure reaches its sleep with exactly one alert_error
\* call and one alert_msg call made; alert_error is called only once both
\* loops are over and before alert_msg, alert_msg only after alert_error and
\* right before the sleep, and nothing is copied or deleted after an alert.
C4_OneAlertPerCycle ==
    /\ [](alert_error_calls <= 1 /\ alert_msg_calls <= 1)
    /\ []((pc = "sleep" /\ failed # {}) =>
             (alert_error_calls = 1 /\ alert_msg_calls = 1))
    /\ [][alert_error_calls' > alert_error_calls =>
             /\ pc = "check_error"
             /\ src_todo = {} /\ dist_todo = {}
             /\ alert_msg_calls = 0]_vars
    /\ [][alert_msg_calls' > alert_msg_calls =>
             (alert_error_calls = 1 /\ pc' = "sleep")]_vars
    /\ [][(pc # "sleep" /\ (copy_attempts' # copy_attempts
                            \/ delete_attempts' # delete_attempts)) =>
             (alert_error_calls = 0 /\ alert_msg_calls = 0)]_vars

\* A copy and a delete failed in the cycle and one alert of each kind was made.
C4_Witness ==
    /\ pc = "sleep"
    /\ \E f \in failed, g \in failed : copy_attempts[f] = 1 /\ delete_attempts[g] = 1
    /\ alert_error_calls = 1
    /\ alert_msg_calls = 1

\* C5: an alert_error or alert_msg call is made only in a cycle in which a
\* copy or a delete has failed, whatever the previous cycle did.
C5_NoAlertWithoutFailure ==
    (alert_error_calls > 0 \/ alert_msg_calls > 0) => failed # {}

\* A failure-free cycle after a failing one has reached its sleep unalerted.
C5_Witness ==
    /\ pc = "sleep"
    /\ prev_failed
    /\ failed = {}
    /\ copy_attempts[1] = 1
    /\ alert_error_calls = 0
    /\ alert_msg_calls = 0

C7_MixerReleased ==
    (\A t \in BagToSet(threads) : t.pc \in {"init", "done"}) => ~mixer_init

ExpectedDefault(kind) ==
    CASE kind = "success" -> <<"path", "to", "default_success_sound.wav">>
      [] kind = "warning" -> <<"path", "to", "default_warning_sound.wav">>
      [] kind = "error" -> <<"path", "to", "default_error_sound.wav">>

ExpectedCustom(kind) ==
    CASE kind = "success" -> <<"default_success_sound.wav">>
      [] kind = "warning" -> <<"default_warning_sound.wav">>
      [] kind = "error" -> <<"default_error_sound.wav">>

\* C8: a playback thread makes at most two alert_sound calls; the first is on
\* the base-name of the default path of its kind; a second is made if and
\* only if the first returned False, and is on the default path of its kind.
C8_CustomThenDefault ==
    \A t \in BagToSet(threads) :
        LET a == t.attempts
        IN  /\ Len(a) <= 2
            /\ Len(a) >= 1 => a[1].path = ExpectedCustom(t.kind)
            /\ Len(a) = 2 => (~a[1].ok /\ a[2].path = ExpectedDefault(t.kind))
            /\ (Len(a) >= 1 /\ ~a[1].ok /\ Len(a) < 2) =>
                  (t.phase = "default" /\ t.pc # "done")
            /\ t.phase = "default" => (Len(a) >= 1 /\ ~a[1].ok)
            /\ t.pc = "done" => Len(a) >= 1

\* A warning whose custom sound failed and whose default sound played, and
\* an alert of another kind whose custom sound played.
C8_Witness ==
    /\ \E t \in BagToSet(threads) :
          /\ t.kind = "warning" /\ t.pc = "done"
          /\ Len(t.attempts) = 2 /\ t.attempts[2].ok
    /\ \E t \in BagToSet(threads) :
          /\ t.kind # "warning" /\ t.pc = "done"
          /\ Len(t.attempts) = 1 /\ t.attempts[1].ok

\* C9: in a cycle that started with the destination directory absent, the
\* directory exists whenever the cycle is at or past its listings; and a
\* cycle that ended in an exception (from makedirs or listdir) has copied
\* nothing, deleted nothing and alerted nothing, and the exception is final.
C9_DirFirstAndFatal ==
    /\ []((start_absent /\ pc \in InCycle) => dist_exists)
    /\ []((start_absent /\ ~NoFileOps) => dist_exists)
    /\ [](pc = "crashed" =>
             (NoFileOps /\ alert_error_calls = 0 /\ alert_msg_calls = 0))
    /\ [][pc = "crashed" => pc' = "crashed"]_vars
    /\ [][pc' = "crashed" => pc \in {"start", "list_src", "list_dist", "crashed"}]_vars

\* The directory was absent, was created, and a listing then failed.
C9_Witness ==
    /\ pc = "crashed"
    /\ start_absent
    /\ dist_exists
    /\ src_dir # {}

LiveThreads == BagCardinality(threads)

====
